---- MODULE Spec2Model ----
(***************************************************************************)
(* The picture rasterization cache of sky/compositor: PictureRasterzier    *)
(* (picture_rasterizer.cc), its caller PictureLayer::Paint                 *)
(* (picture_layer.cc) and the frame protocol of PaintContext               *)
(* (paint_context.cc).                                                     *)
(*                                                                         *)
(* One action per operation.  A step is one whole call: Paint includes the *)
(* cache lookup and the draw, ScopedFrameEnd includes PurgeCache and       *)
(* DisplayStatistics.                                                      *)
(***************************************************************************)
EXTENDS Integers, FiniteSets, Sequences, TLC

(***************************************************************************)
(* Bounds of the model.                                                    *)
(***************************************************************************)
\* frames begun in one run (caps frame_count_)
MaxFrames == 3
\* the same where a client also calls PurgeCache itself
MaxClientFrames == 2
\* PurgeCache calls made by a client besides the one of endFrame
MaxExtraPurges == 1
\* frames begun in one run that paints only the layers sharing a key
MaxSharedKeyFrames == 5

(***************************************************************************)
(* Inputs.                                                                 *)
(***************************************************************************)
\* picture_ == nullptr (0 is no uniqueID of a picture)
NoPicture == 0
\* RefPtr<SkImage>(nullptr)
NoImage == [pictureID |-> 0, size |-> <<0, 0>>, scale |-> 0, texture |-> 0]
\* no value was returned: a DCHECK aborted the process inside the call
Aborted == [pictureID |-> 0, size |-> <<0, 0>>, scale |-> 0, texture |-> -1]
\* the layers of the scene in paint order, each with its picture, paint
\* bounds and offset and the scale of the canvas' total matrix when it is
\* painted: a layer with empty paint bounds, a layer with no picture
\* attached, two layers that share one picture at one size, the same picture
\* at another scale, and another picture.  A frame paints each layer at most
\* once.
Scene ==
  << [picture |-> 2, bounds |-> <<0, 1>>, offset |-> <<3, 3>>, scale |-> 1],
     [picture |-> NoPicture, bounds |-> <<1, 1>>, offset |-> <<2, 2>>, scale |-> 1],
     [picture |-> 1, bounds |-> <<1, 1>>, offset |-> <<4, 0>>, scale |-> 1],
     [picture |-> 1, bounds |-> <<1, 1>>, offset |-> <<0, 5>>, scale |-> 1],
     [picture |-> 1, bounds |-> <<1, 1>>, offset |-> <<6, 6>>, scale |-> 2],
     [picture |-> 2, bounds |-> <<1, 1>>, offset |-> <<0, 7>>, scale |-> 1] >>
Layers == { Scene[i] : i \in 1..Len(Scene) }
\* outcomes of the GPU calls of ImageFromPicture: createTexture fails,
\* NewFromTexture fails, both succeed
AllocOutcomes == {"no_texture", "no_image", "ok"}
\* CompositorOptions::Option, those DisplayStatistics reads
Options == {"DisplayFrameStatistics", "DisplayRasterizerStatistics"}

(***************************************************************************)
(* Key, Value and the map.                                                 *)
(***************************************************************************)
\* Value::kDeadAccessCount: two decrements below the initial value 1
kDeadAccessCount == -1

\* SkISize::isEmpty
isEmpty(size) == size[1] <= 0 \/ size[2] <= 0

\* Key::Key(ident, sz)
KeyIgnoringSize(ident, sz) == [pictureID |-> ident, size |-> <<1, 1>>]
Key(ident, sz) == [pictureID |-> ident, size |-> sz]

\* Value::Value()
Value == [access_count |-> kDeadAccessCount, image |-> NoImage]

\* the keys the scene can produce
Keys ==
  { Key(l.picture, <<l.bounds[1] * l.scale, l.bounds[2] * l.scale>>) :
      l \in { m \in Layers : m.picture # NoPicture /\ m.bounds[1] > 0 } }

\* KeyEqual: two keys are equal iff both fields match exactly
KeyEqual(a, b) == a.pictureID = b.pictureID /\ a.size = b.size

\* std::unordered_map::find: the keys of the map equal to key (one at most)
Find(cache, key) == { k \in DOMAIN cache : KeyEqual(k, key) }

\* std::unordered_map::operator[]: the entry of key, default-constructed
\* when the map holds none
At(cache, key) ==
  IF Find(cache, key) # {}
  THEN cache[CHOOSE k \in Find(cache, key) : TRUE]
  ELSE Value

\* the map with key's entry set to value (inserted by operator[] when absent)
PutAlone(cache, key, value) == [k \in {key} |-> value]
Put(cache, key, value) ==
  LET at == IF Find(cache, key) # {}
            THEN CHOOSE k \in Find(cache, key) : TRUE
            ELSE key
  IN  [k \in DOMAIN cache \cup {at} |-> IF k = at THEN value ELSE cache[k]]

\* std::unordered_map::erase of each key of a set
EraseResetsCount(cache, keys) ==
  [k \in DOMAIN cache |->
     IF \E e \in keys : KeyEqual(k, e)
     THEN [cache[k] EXCEPT !.access_count = kDeadAccessCount]
     ELSE cache[k]]
Erase(cache, keys) ==
  [k \in { c \in DOMAIN cache : \A e \in keys : ~KeyEqual(c, e) } |-> cache[k]]

\* instrumentation::Counter::increment(n)
increment(count, n) == count + n

(***************************************************************************)
(* State.                                                                  *)
(***************************************************************************)
VARIABLES
  \* PictureRasterzier
  cache_,             \* Key -> Value, the entries of the map
  cache_hits_,
  cache_fills_,
  cache_evictions_,
  \* PaintContext
  frame_count_,
  frame_open,         \* a ScopedFrame is in scope (between beginFrame and endFrame)
  gr_context,         \* the frame's GrContext is not null
  destroyed,          \* ~PaintContext has run
  \* the build and the process
  dchecks_on,         \* DCHECK is compiled in (a debug build)
  fatal,              \* a DCHECK failed and aborted the process
  \* the render target
  canvas,             \* save stack and translation of the SkCanvas
  \* the last call, what it returned and what it drew
  last,
  \* history of the calls, kept to state the frame protocol
  next_layer,         \* index in Scene of the next layer the frame may paint
  reqs,               \* Key -> lookups that reached the map in the current frame
  prevReqs,           \* the same for the frame before
  purges_in_frame,    \* PurgeCache calls since the last beginFrame
  extra_purges,       \* PurgeCache calls made by a client, not by endFrame
  overpurged,         \* keys that had an entry when a frame's second purge ran
  unpurged,           \* keys looked up since the last PurgeCache call
  failed,             \* keys of the entries that had a rasterization fail
  inserted,           \* entries operator[] has inserted since construction
  purges_left,        \* Key -> PurgeCache calls its entry is due to outlast,
                      \* plus one, as counted from its last lookup (0: no entry)
  repeated,           \* a key was looked up twice with no PurgeCache in between
  evicted_images      \* the images of the entries PurgeCache has erased

vars ==
  << cache_, cache_hits_, cache_fills_, cache_evictions_, frame_count_,
     frame_open, gr_context, destroyed, dchecks_on, fatal, canvas, last,
     next_layer, reqs, prevReqs, purges_in_frame, extra_purges, overpurged,
     unpurged, failed, inserted, purges_left, repeated, evicted_images >>

\* the rasterizer's fields as one value
Rasterizer ==
  [cache |-> cache_, hits |-> cache_hits_, fills |-> cache_fills_,
   evictions |-> cache_evictions_]

(***************************************************************************)
(* PictureRasterzier.  Each operator takes the rasterizer's fields r and   *)
(* yields them as the call leaves them, with what the call returned.       *)
(***************************************************************************)

\* ImageFromPicture: the image rasterized from picture into a texture of
\* physical_size under the scale of incoming_ctm, or NoImage when the
\* texture or the image cannot be made; cache_fills_ counts the images made.
\* texture numbers the allocation, so that two rasterizations differ.
ImageFromPictureUncounted(r, picture, physical_size, scale, alloc) ==
  [r |-> r,
   image |-> IF alloc = "ok"
             THEN [pictureID |-> picture, size |-> physical_size,
                   scale |-> scale, texture |-> r.fills + 1]
             ELSE NoImage]
ImageFromPictureCountsAttempts(r, picture, physical_size, scale, alloc) ==
  [r |-> [r EXCEPT !.fills = increment(r.fills, 1)],
   image |-> IF alloc = "ok"
             THEN [pictureID |-> picture, size |-> physical_size,
                   scale |-> scale, texture |-> r.fills + 1]
             ELSE NoImage]
ImageFromPicture(r, picture, physical_size, scale, alloc) ==
  IF alloc = "no_texture"
  THEN [r |-> r, image |-> NoImage]
  ELSE LET image == IF alloc = "ok"
                    THEN [pictureID |-> picture, size |-> physical_size,
                          scale |-> scale, texture |-> r.fills + 1]
                    ELSE NoImage
       IN  [r |-> IF image # NoImage
                  THEN [r EXCEPT !.fills = increment(r.fills, 1)]
                  ELSE r,
            image |-> image]

\* GetCachedImageIfPresent, its guard: an empty size, a null picture or a
\* null GrContext
InvalidInputsNoContextCheck(has_gr, picture, physical_size) ==
  isEmpty(physical_size) \/ picture = NoPicture
InvalidInputs(has_gr, picture, physical_size) ==
  isEmpty(physical_size) \/ picture = NoPicture \/ ~has_gr

\* GetCachedImageIfPresent, the test for an entry operator[] has just made
IsDeadNever(value) == FALSE
IsDead(value) == value.access_count = kDeadAccessCount

\* GetCachedImageIfPresent, the first access of an entry
FirstAccess(value) == [value EXCEPT !.access_count = 1]

\* GetCachedImageIfPresent, value.access_count++
Accessed(value) == [value EXCEPT !.access_count = value.access_count + 1]

\* GetCachedImageIfPresent, the condition of its DCHECK
AccessCountAtLeastOne(value) == value.access_count >= 1
AccessCountOk(value) == value.access_count = 1

\* GetCachedImageIfPresent, the count of a returned image as a hit
CountHitNever(r, image) == r
CountHitAlways(r, image) == [r EXCEPT !.hits = increment(r.hits, 1)]
CountHit(r, image) ==
  IF image # NoImage THEN [r EXCEPT !.hits = increment(r.hits, 1)] ELSE r

\* GetCachedImageIfPresent.  picture = NoPicture and has_gr = FALSE are the
\* null arguments.  ret is the image returned, rasterized tells whether
\* ImageFromPicture was called, dcheck_failed whether the DCHECK of the
\* access count failed (in a debug build: the process aborts there, after
\* the increment; a release build has no such check).
GetCachedImageIfPresent(r, dchecks, has_gr, picture, physical_size, scale, alloc) ==
  IF InvalidInputs(has_gr, picture, physical_size)
  THEN [r |-> r, ret |-> NoImage, rasterized |-> FALSE, dcheck_failed |-> FALSE]
  ELSE
    LET key   == Key(picture, physical_size)
        value == At(r.cache, key)
    IN
    IF IsDead(value)
    THEN [r |-> [r EXCEPT !.cache = Put(r.cache, key, FirstAccess(value))],
          ret |-> NoImage, rasterized |-> FALSE, dcheck_failed |-> FALSE]
    ELSE
      LET counted == Accessed(value)
      IN
      IF dchecks /\ ~AccessCountOk(counted)
      THEN [r |-> [r EXCEPT !.cache = Put(r.cache, key, counted)],
            ret |-> Aborted, rasterized |-> FALSE, dcheck_failed |-> TRUE]
      ELSE
        LET made   == IF counted.image = NoImage
                      THEN ImageFromPicture(r, picture, physical_size, scale, alloc)
                      ELSE [r |-> r, image |-> counted.image]
            filled == [counted EXCEPT !.image = made.image]
            r1     == [made.r EXCEPT !.cache = Put(r.cache, key, filled)]
        IN  [r |-> CountHit(r1, filled.image),
             ret |-> filled.image,
             rasterized |-> counted.image = NoImage,
             dcheck_failed |-> FALSE]

\* PurgeCache, --item.second.access_count
NotDecremented(value) == value
DecrementedByTwo(value) == [value EXCEPT !.access_count = value.access_count - 2]
Decremented(value) == [value EXCEPT !.access_count = value.access_count - 1]

\* PurgeCache, the test that marks an entry for removal
IsPurgedAtZero(count) == count = 0
IsPurgedAlways(count) == TRUE
IsPurgedNever(count) == FALSE
IsPurgedBelowDead(count) == count < kDeadAccessCount
IsPurged(count) == count = kDeadAccessCount

\* PurgeCache, cache_evictions_.increment(keys_to_purge.size())
CountEvictionsAllEntries(r, keys_to_purge) ==
  [r EXCEPT !.evictions = increment(r.evictions, Cardinality(DOMAIN r.cache))]
CountEvictionsAssigned(r, keys_to_purge) ==
  [r EXCEPT !.evictions = Cardinality(keys_to_purge)]
CountEvictions(r, keys_to_purge) ==
  [r EXCEPT !.evictions = increment(r.evictions, Cardinality(keys_to_purge))]

\* PurgeCache: every entry's access count goes down by one; the entries
\* that reach kDeadAccessCount are counted as evictions and erased.
PurgeCache(r) ==
  LET decremented == [k \in DOMAIN r.cache |-> Decremented(r.cache[k])]
      keys_to_purge ==
        { k \in DOMAIN decremented : IsPurged(decremented[k].access_count) }
      counted == CountEvictions(r, keys_to_purge)
  IN  [counted EXCEPT !.cache = Erase(decremented, keys_to_purge)]

(***************************************************************************)
(* SkCanvas, as far as Paint and DisplayStatistics use it.                 *)
(***************************************************************************)
save(c) == [c EXCEPT !.stack = Append(c.stack, c.translate)]

translate(c, dx, dy) ==
  [c EXCEPT !.translate = <<c.translate[1] + dx, c.translate[2] + dy>>]

restore(c) ==
  [c EXCEPT !.translate = c.stack[Len(c.stack)],
            !.stack = SubSeq(c.stack, 1, Len(c.stack) - 1)]

\* canvas.drawImage(image, x, y), as the draw it adds
drawImage(c, image, x, y) ==
  [op |-> "drawImage", image |-> image, picture |-> NoPicture,
   at |-> <<c.translate[1] + x, c.translate[2] + y>>]

\* canvas.drawPicture(picture), as the draws it adds: none for a null picture
drawPicture(c, picture) ==
  IF picture = NoPicture
  THEN << >>
  ELSE << [op |-> "drawPicture", image |-> NoImage, picture |-> picture,
           at |-> c.translate] >>

\* a call, as the value of last, before its results are filled in
Call(op) ==
  [op |-> op, picture |-> NoPicture, size |-> <<0, 0>>, ret |-> NoImage,
   rasterized |-> FALSE, alloc |-> "", drawn |-> << >>]

NoReqs == [k \in Keys |-> 0]

(***************************************************************************)
(* Init: a PaintContext and its PictureRasterzier right after construction,*)
(* in a debug or a release build.                                          *)
(***************************************************************************)
Init ==
  /\ cache_ = [k \in {} |-> Value]
  /\ cache_hits_ = 0
  /\ cache_fills_ = 0
  /\ cache_evictions_ = 0
  /\ frame_count_ = 0
  /\ frame_open = FALSE
  /\ gr_context = FALSE
  /\ destroyed = FALSE
  /\ dchecks_on \in BOOLEAN
  /\ fatal = FALSE
  /\ canvas = [stack |-> << >>, translate |-> <<0, 0>>]
  /\ last = Call("PaintContext")
  /\ next_layer = 1
  /\ reqs = NoReqs
  /\ prevReqs = NoReqs
  /\ purges_in_frame = 0
  /\ extra_purges = 0
  /\ overpurged = {}
  /\ unpurged = {}
  /\ failed = {}
  /\ inserted = 0
  /\ purges_left = NoReqs
  /\ repeated = FALSE
  /\ evicted_images = {}

\* the process runs and the context exists
Alive == ~fatal /\ ~destroyed

\* the rasterizer's fields become those of r
SetRasterizer(r) ==
  /\ cache_' = r.cache
  /\ cache_hits_' = r.hits
  /\ cache_fills_' = r.fills
  /\ cache_evictions_' = r.evictions

\* the history of a PurgeCache call, once the rasterizer's fields are set
NotePurge ==
  /\ purges_in_frame' = purges_in_frame + 1
  /\ unpurged' = {}
  /\ failed' = failed \cap DOMAIN cache_'
  /\ inserted' = inserted
  /\ purges_left' = [k \in Keys |-> IF purges_left[k] > 0
                                   THEN purges_left[k] - 1
                                   ELSE 0]
  /\ repeated' = repeated
  /\ evicted_images' =
       evicted_images \cup
         ({ cache_[k].image : k \in DOMAIN cache_ \ DOMAIN cache_' } \ {NoImage})
  /\ overpurged' = IF purges_in_frame >= 1
                   THEN overpurged \cup DOMAIN cache_
                   ELSE overpurged

(***************************************************************************)
(* PaintContext and PictureLayer.                                          *)
(***************************************************************************)

\* PaintContext::DisplayStatistics: the lines of text drawn, top down, with
\* the counts as they are when it runs.  The frame's duration is not modelled.
DisplayStatistics(options, frames, r) ==
  LET kLineSpacing == 18
      frameLine == [op |-> "drawText", text |-> "Frame", a |-> frames, b |-> 0,
                    c |-> 0, at |-> <<10, 20>>]
      first == IF "DisplayFrameStatistics" \in options THEN <<frameLine>> ELSE << >>
      rasterLine == [op |-> "drawText", text |-> "Rasterizer", a |-> r.hits,
                     b |-> r.fills, c |-> r.evictions,
                     at |-> <<10, 20 + kLineSpacing * Len(first)>>]
  IN  IF "DisplayRasterizerStatistics" \in options
      THEN first \o <<rasterLine>>
      ELSE first

\* PaintContext::AcquireFrame: the ScopedFrame it returns calls beginFrame
AcquireFrame(has_gr, max_frames) ==
  /\ Alive
  /\ ~frame_open
  /\ frame_count_ < max_frames
  /\ frame_count_' = increment(frame_count_, 1)   \* beginFrame
  /\ frame_open' = TRUE
  /\ gr_context' = has_gr
  /\ last' = Call("beginFrame")
  /\ next_layer' = 1
  /\ prevReqs' = reqs
  /\ reqs' = NoReqs
  /\ purges_in_frame' = 0
  /\ UNCHANGED << cache_, cache_hits_, cache_fills_, cache_evictions_,
                  destroyed, dchecks_on, fatal, canvas, extra_purges,
                  overpurged, unpurged, failed, inserted, purges_left,
                  repeated, evicted_images >>

\* PictureLayer::Paint, the size asked of the rasterizer
PhysicalSize(bounds, scale) == <<bounds[1] * scale, bounds[2] * scale>>

\* PictureLayer::Paint, what it draws given the image the rasterizer
\* returned: the canvas as Paint leaves it and the draws made
DrawReplaysAlways(c, image, picture, offset) ==
  LET moved == translate(save(c), offset[1], offset[2])
  IN  [canvas |-> restore(moved), drawn |-> drawPicture(moved, picture)]
Draw(c, image, picture, offset) ==
  IF image # NoImage
  THEN [canvas |-> c, drawn |-> << drawImage(c, image, offset[1], offset[2]) >>]
  ELSE LET moved == translate(save(c), offset[1], offset[2])
       IN  [canvas |-> restore(moved), drawn |-> drawPicture(moved, picture)]

\* PictureLayer::Paint of layer i of the scene (the layers before it are
\* painted or left out of this frame), with the outcome the GPU calls have
\* if the rasterizer makes them
Paint(i, alloc) ==
  /\ Alive
  /\ frame_open
  /\ i >= next_layer
  /\ next_layer' = i + 1
  /\ LET layer == Scene[i]
         physical_size == PhysicalSize(layer.bounds, layer.scale)
         call  == [Call("Paint") EXCEPT !.picture = layer.picture,
                                      !.size = physical_size]
     IN
     IF dchecks_on /\ layer.picture = NoPicture
     THEN \* DCHECK(picture_)
          /\ fatal' = TRUE
          /\ last' = [call EXCEPT !.ret = Aborted]
          /\ UNCHANGED << cache_, cache_hits_, cache_fills_, cache_evictions_,
                          canvas, reqs, overpurged, unpurged, failed,
                          inserted, purges_left, repeated >>
     ELSE
       LET got == GetCachedImageIfPresent(Rasterizer, dchecks_on, gr_context,
                    layer.picture, physical_size, layer.scale, alloc)
           key == Key(layer.picture, physical_size)
           reached == ~InvalidInputs(gr_context, layer.picture, physical_size)
           drew == Draw(canvas, got.ret, layer.picture, layer.offset)
       IN
       /\ SetRasterizer(got.r)
       /\ fatal' = got.dcheck_failed
       /\ canvas' = IF got.dcheck_failed THEN canvas ELSE drew.canvas
       /\ last' = [call EXCEPT !.ret = got.ret, !.rasterized = got.rasterized,
                      !.alloc = IF got.rasterized THEN alloc ELSE "",
                      !.drawn = IF got.dcheck_failed THEN << >> ELSE drew.drawn]
       /\ reqs' = IF reached /\ key \in Keys
                  THEN [reqs EXCEPT ![key] = @ + 1]
                  ELSE reqs
       /\ overpurged' = IF reached THEN overpurged \ {key} ELSE overpurged
       /\ unpurged' = IF reached THEN unpurged \cup {key} ELSE unpurged
       /\ failed' = IF got.rasterized /\ got.ret = NoImage
                    THEN failed \cup {key}
                    ELSE failed
       /\ inserted' = IF reached /\ Find(cache_, key) = {}
                      THEN inserted + 1
                      ELSE inserted
       /\ purges_left' = IF reached /\ key \in Keys
                         THEN [purges_left EXCEPT
                                 ![key] = At(got.r.cache, key).access_count + 1]
                         ELSE purges_left
       /\ repeated' = (repeated \/ (reached /\ key \in unpurged))
  /\ UNCHANGED << frame_count_, frame_open, gr_context, destroyed,
                  dchecks_on, prevReqs, purges_in_frame, extra_purges,
                  evicted_images >>

\* ~ScopedFrame: PaintContext::endFrame, which purges and then draws the
\* statistics that the options enabled at that time ask for
ScopedFrameEndStatisticsFirst(options) ==
  /\ Alive
  /\ frame_open
  /\ SetRasterizer(PurgeCache(Rasterizer))
  /\ last' = [Call("endFrame") EXCEPT
                !.drawn = DisplayStatistics(options, frame_count_, Rasterizer)]
  /\ frame_open' = FALSE
  /\ NotePurge
  /\ UNCHANGED << frame_count_, gr_context, destroyed, dchecks_on,
                  fatal, canvas, next_layer, reqs, prevReqs, extra_purges >>
ScopedFrameEnd(options) ==
  /\ Alive
  /\ frame_open
  /\ LET r == PurgeCache(Rasterizer)
     IN  /\ SetRasterizer(r)
         /\ last' = [Call("endFrame") EXCEPT
                       !.drawn = DisplayStatistics(options, frame_count_, r)]
  /\ frame_open' = FALSE
  /\ NotePurge
  /\ UNCHANGED << frame_count_, gr_context, destroyed, dchecks_on,
                  fatal, canvas, next_layer, reqs, prevReqs, extra_purges >>

\* a client's own call of rasterizer().PurgeCache(), at any time
ClientPurgeCache ==
  /\ Alive
  /\ extra_purges < MaxExtraPurges
  /\ extra_purges' = extra_purges + 1
  /\ SetRasterizer(PurgeCache(Rasterizer))
  /\ last' = Call("PurgeCache")
  /\ NotePurge
  /\ UNCHANGED << frame_count_, frame_open, gr_context, destroyed,
                  dchecks_on, fatal, canvas, next_layer, reqs, prevReqs >>

\* PaintContext::~PaintContext
PaintContextDtor ==
  /\ Alive
  /\ SetRasterizer(PurgeCache(Rasterizer))
  /\ destroyed' = TRUE
  /\ last' = Call("~PaintContext")
  /\ NotePurge
  /\ UNCHANGED << frame_count_, frame_open, gr_context, dchecks_on,
                  fatal, canvas, next_layer, reqs, prevReqs, extra_purges >>

\* the program: frames acquired from the PaintContext, each painting layers
\* of the scene and ending with endFrame, until the context is destroyed
Next ==
  \/ \E has_gr \in BOOLEAN : AcquireFrame(has_gr, MaxFrames)
  \/ \E i \in 1..Len(Scene), alloc \in AllocOutcomes : Paint(i, alloc)
  \/ \E options \in {{}, Options} : ScopedFrameEnd(options)
  \/ PaintContextDtor

Spec == Init /\ [][Next]_vars

\* the program with a client that also calls PurgeCache itself, at any
\* time; its frames have a GrContext, paint the layers that reach the map
\* and draw all the statistics
NextClient ==
  \/ AcquireFrame(TRUE, MaxClientFrames)
  \/ \E i \in { j \in 1..Len(Scene) :
                  ~InvalidInputs(TRUE, Scene[j].picture,
                                 PhysicalSize(Scene[j].bounds, Scene[j].scale)) },
        alloc \in AllocOutcomes : Paint(i, alloc)
  \/ ScopedFrameEnd(Options)
  \/ ClientPurgeCache
  \/ PaintContextDtor

SpecClient == Init /\ [][NextClient]_vars

\* the key Paint asks the rasterizer for when it paints layer i
LayerKey(i) ==
  Key(Scene[i].picture, PhysicalSize(Scene[i].bounds, Scene[i].scale))

\* the layers of the scene that share their key with another layer
SharedKeyLayers ==
  { i \in 1..Len(Scene) :
      /\ ~InvalidInputs(TRUE, Scene[i].picture,
                        PhysicalSize(Scene[i].bounds, Scene[i].scale))
      /\ \E j \in 1..Len(Scene) : j # i /\ LayerKey(j) = LayerKey(i) }

\* the program over more frames, each painting only layers that share one
\* key: the life of one entry through fills, idle frames, evictions and
\* new requests
NextSharedKey ==
  \/ AcquireFrame(TRUE, MaxSharedKeyFrames)
  \/ \E i \in SharedKeyLayers, alloc \in AllocOutcomes : Paint(i, alloc)
  \/ ScopedFrameEnd(Options)
  \/ PaintContextDtor

SpecSharedKey == Init /\ [][NextSharedKey]_vars

(***************************************************************************)
(* Properties.                                                             *)
(***************************************************************************)

\* the step is a Paint call (no other call moves next_layer forward)
PaintStep == next_layer' > next_layer

\* the step is a lookup of key k that reached the map
Looked(k) == PaintStep /\ reqs'[k] = reqs[k] + 1

\* the key of the last Paint call
LastKey == Key(last.picture, last.size)

\* an image was returned
Present(image) == image # NoImage /\ image # Aborted

\* the purge discipline: PurgeCache runs only in endFrame, once per frame
Disciplined == extra_purges = 0

\* C1: first-miss guarantee: a lookup with valid inputs of a key that has
\* no entry (never seen, or evicted) returns no image, whatever the GPU
\* calls would do, makes no rasterization attempt, leaves the hit and the
\* fill counter as they are, and leaves an entry with count 1 and no image.
C1_FirstMiss ==
  [][\A k \in Keys :
       (Looked(k) /\ Find(cache_, k) = {})
         => /\ last'.ret = NoImage
            /\ ~last'.rasterized
            /\ cache_hits_' = cache_hits_
            /\ cache_fills_' = cache_fills_
            /\ At(cache_', k) = [access_count |-> 1, image |-> NoImage]]_vars

\* C1 witness: every key of the scene has been evicted once, and the third
\* frame has just looked one of them up again: it is served as a miss.
C1_Witness ==
  /\ last.op = "Paint"
  /\ last.ret = NoImage
  /\ Find(cache_, LastKey) # {}
  /\ reqs[LastKey] = 1
  /\ At(cache_, LastKey) = [access_count |-> 1, image |-> NoImage]
  /\ frame_count_ = 3
  /\ cache_evictions_ = Cardinality(Keys)
  /\ Cardinality(DOMAIN cache_) = 1

\* C2: hit after warm-up: a key looked up once in frame N, one purge at the
\* end of frame N, and the first lookup of the key in frame N+1, with the
\* GPU calls succeeding if they are made, returns an image and adds exactly
\* one hit.
C2_HitAfterWarmUp ==
  [][\A k \in Keys :
       (Looked(k) /\ Disciplined /\ prevReqs[k] = 1 /\ reqs[k] = 0
          /\ last'.alloc \in {"", "ok"})
         => /\ Present(last'.ret)
            /\ last'.ret = At(cache_', k).image
            /\ cache_hits_' = cache_hits_ + 1]_vars

\* C2 witness: the second frame looked the key of the first frame's miss up
\* again; the image was rasterized in this call and returned as the first hit.
C2_Witness ==
  /\ last.op = "Paint"
  /\ Present(last.ret)
  /\ last.rasterized
  /\ prevReqs[LastKey] = 1
  /\ reqs[LastKey] = 1
  /\ frame_count_ = 2
  /\ cache_hits_ = 1
  /\ cache_fills_ = 1

\* the step is the end of a frame (endFrame, with its purge)
EndFrameStep == frame_open /\ ~frame_open'

\* C3, as claimed: with one purge per frame, a key looked up in frame N still
\* has its entry after the purge that ends frame N, and if frame N+1 does not
\* look it up, the purge that ends frame N+1 removes the entry and counts an
\* eviction.
C3_EvictAfterOneIdleFrame ==
  [][(EndFrameStep /\ Disciplined)
       => \A k \in Keys :
            /\ reqs[k] >= 1 => Find(cache_', k) # {}
            /\ (prevReqs[k] >= 1 /\ reqs[k] = 0)
                 => /\ Find(cache_', k) = {}
                    /\ cache_evictions_' >= cache_evictions_ + 1]_vars

\* C4, as claimed: with one purge per frame, every lookup of an entry that
\* is in the map leaves its count at exactly 1, several lookups of one key in
\* a frame included, so that in a build with DCHECKs the DCHECK of the count
\* never fails.
C4_CountIsOneAfterLookup ==
  [][\A k \in Keys :
       (Looked(k) /\ Disciplined /\ dchecks_on /\ Find(cache_, k) # {})
         => /\ At(cache_', k).access_count = 1
            /\ ~fatal']_vars

\* C5, as claimed: with one purge per frame, the count of every entry in the
\* map is kDeadAccessCount or positive.
C5_DeadOrPositive ==
  Disciplined =>
    \A k \in DOMAIN cache_ :
      \/ cache_[k].access_count = kDeadAccessCount
      \/ cache_[k].access_count > 0

\* C5, amended: the count of every entry in the map is 0 or positive, never
\* kDeadAccessCount: it is 1 or more from a lookup of the entry until the
\* next purge, and an entry that a purge brings to kDeadAccessCount is
\* erased by that purge.
C5_CountNeverDead ==
  \A k \in DOMAIN cache_ :
    /\ cache_[k].access_count >= 0
    /\ cache_[k].access_count # kDeadAccessCount
    /\ k \in unpurged => cache_[k].access_count >= 1

\* C5 witness: between two frames, an entry that holds an image has count 0.
C5_Witness ==
  /\ ~frame_open
  /\ Disciplined
  /\ \E k \in DOMAIN cache_ :
       /\ cache_[k].access_count = 0
       /\ cache_[k].image # NoImage

\* C6, as claimed: in a build with DCHECKs, the next lookup of the key of an
\* entry reaches the failing DCHECK both when PurgeCache ran more than once
\* in a frame while the entry was in the map and when no PurgeCache ran
\* since the entry's last lookup.
C6_ViolationsDetected ==
  [][\A k \in Keys :
       (Looked(k) /\ dchecks_on /\ (k \in overpurged \/ k \in unpurged))
         => fatal']_vars

\* C6, amended: in a build with DCHECKs, a lookup of a key that was looked
\* up before with no PurgeCache call in between reaches the failing DCHECK
\* (count 2 after the increment) and does not return; a PurgeCache call made
\* more than once in a frame is not detected: the next lookup of the key of
\* an entry that was in the map then completes as a normal miss or hit.
C6_MissingPurgeDetected ==
  [][\A k \in Keys :
       (Looked(k) /\ dchecks_on)
         => /\ k \in unpurged
                 => /\ fatal'
                    /\ last'.ret = Aborted
                    /\ At(cache_', k).access_count = 2
            /\ k \in overpurged
                 => /\ ~fatal'
                    /\ last'.ret # Aborted
                    /\ At(cache_', k).access_count = 1]_vars

\* C6 witness: a debug build, a client has called PurgeCache itself; the key
\* was looked up in the frame before, lost its entry to the frame's second
\* purge, and its lookup in this frame has completed as a first miss.
C6_Witness ==
  /\ dchecks_on
  /\ ~fatal
  /\ extra_purges = 1
  /\ last.op = "Paint"
  /\ last.ret = NoImage
  /\ prevReqs[LastKey] = 1
  /\ reqs[LastKey] = 1
  /\ At(cache_, LastKey) = [access_count |-> 1, image |-> NoImage]
  /\ cache_evictions_ >= 1

C8_InvalidInputsNoOp ==
  [][(/\ PaintStep
      /\ last'.ret # Aborted
      /\ (isEmpty(last'.size) \/ last'.picture = NoPicture \/ ~gr_context))
       => /\ last'.ret = NoImage
          /\ ~last'.rasterized
          /\ cache_' = cache_
          /\ cache_hits_' = cache_hits_
          /\ cache_fills_' = cache_fills_
          /\ cache_evictions_' = cache_evictions_]_vars

\* C8 witness: a frame without GrContext has painted a layer whose key has
\* an entry with an image from the frame before: nothing was returned and
\* the entry still has the count the purge left it with.
C8_Witness ==
  /\ last.op = "Paint"
  /\ frame_open
  /\ ~gr_context
  /\ last.ret = NoImage
  /\ Find(cache_, LastKey) # {}
  /\ At(cache_, LastKey).image # NoImage
  /\ At(cache_, LastKey).access_count = 0
  /\ cache_hits_ = 1

\* C9: key equality: the image a lookup returns was rasterized from the
\* picture and at the size of that lookup, and every image in the map was
\* rasterized from the picture and at the size of its key; one entry per key.
C9_KeyEquality ==
  /\ (last.op = "Paint" /\ Present(last.ret))
       => /\ last.ret.pictureID = last.picture
          /\ last.ret.size = last.size
  /\ \A k \in DOMAIN cache_ :
       /\ cache_[k].image # NoImage
            => /\ cache_[k].image.pictureID = k.pictureID
               /\ cache_[k].image.size = k.size
       /\ Find(cache_, k) = {k}

\* C9 witness: the map holds an image for each key of the scene (one picture
\* at two sizes, two pictures at one size) and a lookup of the picture at
\* its larger size has just returned one.
C9_Witness ==
  /\ last.op = "Paint"
  /\ Present(last.ret)
  /\ last.size = <<2, 2>>
  /\ \A k \in Keys : Find(cache_, k) # {} /\ At(cache_, k).image # NoImage

\* C10: the hit, fill and eviction counters are never negative and no step
\* (lookup, purge by endFrame, by a client or by the destructor, beginFrame,
\* failed allocation) decreases one of them.
C10_CountersMonotonic ==
  [][/\ cache_hits_ >= 0 /\ cache_hits_' >= cache_hits_
     /\ cache_fills_ >= 0 /\ cache_fills_' >= cache_fills_
     /\ cache_evictions_ >= 0 /\ cache_evictions_' >= cache_evictions_]_vars

\* C10 witness: after a client's own purge and the destructor's, each of the
\* three counters has counted.
C10_Witness ==
  /\ destroyed
  /\ extra_purges = 1
  /\ cache_hits_ >= 1
  /\ cache_fills_ >= 1
  /\ cache_evictions_ >= 1

\* C11: the eviction counter counts the entries removed: every call adds to
\* it exactly the number of entries it removes from the map (a lookup none, a
\* PurgeCache those that reached kDeadAccessCount), so that it always equals
\* the entries ever inserted minus the entries in the map.
C11_EvictionsCountRemoved ==
  [][/\ cache_evictions_' - cache_evictions_
          = Cardinality(DOMAIN cache_ \ DOMAIN cache_')
     /\ cache_evictions_' = inserted' - Cardinality(DOMAIN cache_')]_vars

\* C11 witness: a client's purge has just removed the two entries of the
\* frame before and kept the entry the open frame inserted.
C11_Witness ==
  /\ last.op = "PurgeCache"
  /\ frame_open
  /\ inserted = 3
  /\ cache_evictions_ = 2
  /\ Cardinality(DOMAIN cache_) = 1

\* f holds n requests of key k and none of another key
OnlyReq(f, k, n) == f[k] = n /\ \A j \in Keys \ {k} : f[j] = 0

\* the layer the Paint call of the step paints
PaintedLayer == Scene[next_layer' - 1]

\* C12: the three-frame scenario of one key k, from the empty cache with all
\* counters 0, one purge at each frame end, the GPU calls succeeding.
\* Frame 1: the lookup of k returns no image and the picture is replayed at
\* the layer's offset.  Frame 2, after a frame 1 that looked up k once and
\* nothing else: the lookup returns an image, which is drawn at the layer's
\* offset, and hits and fills are 1.  Frame 3, entered in the state frame 2
\* leaves (k's entry alone in the map, with its image and count 0, hits and
\* fills 1) and without a lookup: its purge removes the entry and evictions are 1.
C12_ThreeFrameScenario ==
  [][\A k \in Keys :
       /\ (/\ Looked(k) /\ frame_count_ = 1 /\ reqs = NoReqs
           /\ DOMAIN cache_ = {} /\ cache_hits_ = 0 /\ cache_fills_ = 0
           /\ cache_evictions_ = 0)
            => /\ last'.ret = NoImage
               /\ last'.drawn = << [op |-> "drawPicture", image |-> NoImage,
                                    picture |-> k.pictureID,
                                    at |-> PaintedLayer.offset] >>
       /\ (/\ Looked(k) /\ frame_count_ = 2 /\ reqs = NoReqs
           /\ OnlyReq(prevReqs, k, 1)
           /\ last'.alloc \notin {"no_texture", "no_image"})
            => /\ Present(last'.ret)
               /\ last'.drawn = << [op |-> "drawImage", image |-> last'.ret,
                                    picture |-> NoPicture,
                                    at |-> PaintedLayer.offset] >>
               /\ cache_hits_' = 1
               /\ cache_fills_' = 1
       /\ (/\ EndFrameStep /\ frame_count_ = 3 /\ reqs = NoReqs
           /\ OnlyReq(prevReqs, k, 1)
           /\ DOMAIN cache_ = {k} /\ cache_[k].image # NoImage
           /\ cache_[k].access_count = 0
           /\ inserted = 1 /\ cache_hits_ = 1 /\ cache_fills_ = 1)
            => /\ Find(cache_', k) = {}
               /\ cache_evictions_' = 1
               /\ cache_hits_' = 1
               /\ cache_fills_' = 1]_vars

\* C12 witness: the third frame has ended without a lookup; one entry was
\* ever inserted, it was looked up once in the second frame, it gave one
\* fill and one hit, and the purge has just evicted it.
C12_Witness ==
  /\ last.op = "endFrame"
  /\ frame_count_ = 3
  /\ reqs = NoReqs
  /\ \E k \in Keys : OnlyReq(prevReqs, k, 1)
  /\ inserted = 1
  /\ cache_hits_ = 1
  /\ cache_fills_ = 1
  /\ cache_evictions_ = 1
  /\ DOMAIN cache_ = {}

\* C13, as claimed: once the PaintContext is destroyed, its final purge has
\* left no entry in the map, whatever the map held at teardown.
C13_TeardownLeavesNoEntry == destroyed => DOMAIN cache_ = {}

\* the step is a beginFrame
BeginFrameStep == ~frame_open /\ frame_open'

\* C14: endFrame purges once (every entry's count goes down by exactly one,
\* or the entry is removed) and before the statistics are drawn: the line of
\* the rasterizer shows the hits, fills and evictions as the purge leaves
\* them.  beginFrame purges nothing: the map and the three counters are as
\* before, the frame count is one more.
C14_FrameProtocol ==
  [][/\ EndFrameStep
          => /\ \A k \in DOMAIN cache_ :
                  \/ k \notin DOMAIN cache_'
                  \/ cache_'[k].access_count = cache_[k].access_count - 1
             /\ \A i \in 1..Len(last'.drawn) :
                  last'.drawn[i].text = "Rasterizer"
                    => /\ last'.drawn[i].a = cache_hits_'
                       /\ last'.drawn[i].b = cache_fills_'
                       /\ last'.drawn[i].c = cache_evictions_'
     /\ BeginFrameStep
          => /\ cache_' = cache_
             /\ cache_hits_' = cache_hits_
             /\ cache_fills_' = cache_fills_
             /\ cache_evictions_' = cache_evictions_
             /\ frame_count_' = frame_count_ + 1]_vars

\* C14 witness: the second frame has ended; its purge made the first
\* eviction, and the statistics drawn after it show that eviction.
C14_Witness ==
  /\ last.op = "endFrame"
  /\ frame_count_ = 2
  /\ cache_evictions_ = 1
  /\ \E i \in 1..Len(last.drawn) :
       /\ last.drawn[i].text = "Rasterizer"
       /\ last.drawn[i].c = 1

\* the step is a PurgeCache call (of endFrame, a client or the destructor)
PurgeStep == purges_in_frame' = purges_in_frame + 1

\* C15: PurgeCache takes the count of every entry down by exactly one,
\* removes exactly the entries whose count is then kDeadAccessCount, keeps
\* every other entry with its image, adds no entry and leaves the hit and the
\* fill counter as they are.
C15_PurgeDecrementsAndRemoves ==
  [][PurgeStep
       => /\ DOMAIN cache_' \subseteq DOMAIN cache_
          /\ \A k \in DOMAIN cache_ :
               IF cache_[k].access_count - 1 = kDeadAccessCount
               THEN k \notin DOMAIN cache_'
               ELSE /\ k \in DOMAIN cache_'
                    /\ cache_'[k].access_count = cache_[k].access_count - 1
                    /\ cache_'[k].image = cache_[k].image
          /\ cache_hits_' = cache_hits_
          /\ cache_fills_' = cache_fills_]_vars

\* C15 witness: the purge that ends the second frame has removed an entry of
\* the first frame and kept, with its image and count 0, an entry the second
\* frame looked up.
C15_Witness ==
  /\ last.op = "endFrame"
  /\ frame_count_ = 2
  /\ extra_purges = 0
  /\ cache_evictions_ >= 1
  /\ \E k \in DOMAIN cache_ :
       /\ cache_[k].access_count = 0
       /\ cache_[k].image # NoImage

\* C16: hit and fill accounting of a lookup: the hit counter goes up by one
\* if the call returns an image and stays otherwise; the fill counter goes up
\* by one if the entry of the key had no image before the call and has one
\* after it and stays otherwise (a call served from the image of an earlier
\* frame changes the hits only); the eviction counter stays.
C16_HitFillAccounting ==
  [][PaintStep
       => LET k == Key(last'.picture, last'.size)
              filled == /\ At(cache_, k).image = NoImage
                        /\ At(cache_', k).image # NoImage
          IN  /\ cache_hits_' = cache_hits_ + (IF Present(last'.ret) THEN 1 ELSE 0)
              /\ cache_fills_' = cache_fills_ + (IF filled THEN 1 ELSE 0)
              /\ cache_evictions_' = cache_evictions_]_vars

\* C16 witness: the third frame's lookup was served from the image the
\* second frame rasterized: two hits, one fill, nothing rasterized now.
C16_Witness ==
  /\ last.op = "Paint"
  /\ Present(last.ret)
  /\ ~last.rasterized
  /\ frame_count_ = 3
  /\ prevReqs[LastKey] = 1
  /\ reqs[LastKey] = 1
  /\ cache_hits_ = 2
  /\ cache_fills_ = 1

\* C17: recovery after memory pressure: a lookup whose rasterization fails
\* leaves the entry in the map without image; the purge of the frame keeps
\* it like any entry looked up in the frame; when the key is looked up once
\* per frame, the next frame's lookup rasterizes again, and if the GPU calls
\* then succeed it returns the image in that call, with one fill and one hit
\* more, and otherwise leaves the entry without image once more.
C17_RecoveryAfterFailure ==
  [][\A k \in Keys :
       /\ (Looked(k) /\ last'.rasterized /\ last'.ret = NoImage)
            => /\ k \in failed'
               /\ Find(cache_', k) # {}
               /\ At(cache_', k).image = NoImage
       /\ (EndFrameStep /\ k \in failed /\ reqs[k] = 1)
            => /\ Find(cache_', k) # {}
               /\ At(cache_', k).image = At(cache_, k).image
               /\ At(cache_', k).access_count = At(cache_, k).access_count - 1
       /\ (/\ Looked(k) /\ k \in failed /\ At(cache_, k).image = NoImage
           /\ prevReqs[k] = 1 /\ reqs[k] = 0)
            => /\ last'.rasterized
               /\ IF last'.alloc = "ok"
                  THEN /\ Present(last'.ret)
                       /\ At(cache_', k).image = last'.ret
                       /\ cache_fills_' = cache_fills_ + 1
                       /\ cache_hits_' = cache_hits_ + 1
                  ELSE /\ last'.ret = NoImage
                       /\ At(cache_', k).image = NoImage
                       /\ cache_fills_' = cache_fills_
                       /\ cache_hits_' = cache_hits_]_vars

\* C17 witness: the entry's rasterization failed in the second frame; the
\* third frame's lookup rasterized again, succeeded and returned the image:
\* the first fill and the first hit.
C17_Witness ==
  /\ last.op = "Paint"
  /\ last.rasterized
  /\ Present(last.ret)
  /\ LastKey \in failed
  /\ frame_count_ = 3
  /\ prevReqs[LastKey] = 1
  /\ reqs[LastKey] = 1
  /\ inserted = 1
  /\ cache_hits_ = 1
  /\ cache_fills_ = 1

\* C18, as claimed: every Paint of a layer with a picture makes exactly one
\* draw: the blit of the image at the layer's offset if and only if the
\* lookup returned an image, otherwise the replay of the picture translated
\* by the offset; save depth and transform of the canvas are as before.
C18_OneLookupOneDraw ==
  [][(PaintStep /\ last'.picture # NoPicture)
       => /\ Len(last'.drawn) = 1
          /\ last'.drawn[1] =
               IF Present(last'.ret)
               THEN [op |-> "drawImage", image |-> last'.ret,
                     picture |-> NoPicture,
                     at |-> <<canvas.translate[1] + PaintedLayer.offset[1],
                              canvas.translate[2] + PaintedLayer.offset[2]>>]
               ELSE [op |-> "drawPicture", image |-> NoImage,
                     picture |-> last'.picture,
                     at |-> <<canvas.translate[1] + PaintedLayer.offset[1],
                              canvas.translate[2] + PaintedLayer.offset[2]>>]
          /\ canvas' = canvas]_vars

\* C19: the fill counter never exceeds the hit counter: a call that
\* rasterizes and stores an image counts it as a hit before it returns.
C19_FillsAtMostHits == cache_fills_ <= cache_hits_

\* C19 witness: two images were rasterized and each gave its one hit.
C19_Witness ==
  /\ cache_fills_ = 2
  /\ cache_hits_ = 2
  /\ last.op = "Paint"
  /\ last.rasterized
  /\ Present(last.ret)

\* C20: with one purge per frame, the entry of a key looked up once in the
\* frame is not removed by the purge that ends the frame and keeps its image;
\* and once it holds an image, the lookup of the next frame returns that
\* same image without rasterizing and without a fill.
C20_ResidentKeyRasterizedOnce ==
  [][\A k \in Keys :
       /\ (EndFrameStep /\ Disciplined /\ reqs[k] = 1)
            => /\ Find(cache_', k) # {}
               /\ At(cache_', k).image = At(cache_, k).image
               /\ cache_evictions_' - cache_evictions_
                    = Cardinality(DOMAIN cache_ \ DOMAIN cache_')
       /\ (/\ Looked(k) /\ Disciplined /\ prevReqs[k] = 1 /\ reqs[k] = 0
           /\ At(cache_, k).image # NoImage)
            => /\ last'.ret = At(cache_, k).image
               /\ At(cache_', k).image = At(cache_, k).image
               /\ ~last'.rasterized
               /\ cache_fills_' = cache_fills_]_vars

\* C20 witness: one entry was ever inserted; its key was looked up in each
\* of three frames; the third frame has ended and the entry is in the map
\* with the image of its one fill, which was returned twice.
C20_Witness ==
  /\ last.op = "endFrame"
  /\ frame_count_ = 3
  /\ inserted = 1
  /\ cache_evictions_ = 0
  /\ cache_fills_ = 1
  /\ cache_hits_ = 2
  /\ \E k \in DOMAIN cache_ :
       /\ reqs[k] = 1
       /\ prevReqs[k] = 1
       /\ cache_[k].image # NoImage
       /\ cache_[k].image.texture = 1

\* C21: eviction discards the image: the purge that brings an entry's count
\* to kDeadAccessCount leaves no entry of its key; an image of an erased
\* entry is never stored nor returned again; the next lookup of the key is
\* served like that of a key never seen (no image returned, nothing
\* rasterized, entry with count 1 and no image), and an image returned
\* later comes from a new rasterization that adds to the fill counter.
C21_EvictionDiscardsImage ==
  [][/\ \A k \in DOMAIN cache_ :
          (PurgeStep /\ cache_[k].access_count = 0) => Find(cache_', k) = {}
     /\ \A k \in DOMAIN cache_' : cache_'[k].image \notin evicted_images'
     /\ \A k \in Keys :
          /\ (Looked(k) /\ Find(cache_, k) = {})
               => /\ last'.ret = NoImage
                  /\ ~last'.rasterized
                  /\ At(cache_', k) = [access_count |-> 1, image |-> NoImage]
          /\ (Looked(k) /\ Present(last'.ret))
               => /\ last'.ret \notin evicted_images'
                  /\ last'.ret = At(cache_', k).image
                  /\ At(cache_, k).image = NoImage
                       => /\ last'.rasterized
                          /\ cache_fills_' = cache_fills_ + 1]_vars

\* C21 witness: the key's entry was evicted with its image; the key was
\* then looked up again (a second insertion, a miss) and, a frame later,
\* rasterized again: the second fill, an image that is not the evicted one.
C21_Witness ==
  /\ last.op = "Paint"
  /\ last.rasterized
  /\ Present(last.ret)
  /\ inserted = 2
  /\ cache_evictions_ = 1
  /\ cache_fills_ = 2
  /\ evicted_images # {}
  /\ \A image \in evicted_images :
       /\ image.pictureID = last.picture
       /\ image.size = last.size
       /\ image # last.ret

\* the keys looked up in a frame, given the frame's lookups per key
Requested(f) == { k \in Keys : f[k] >= 1 }

\* C22: bounded residency: with one purge per frame and no key looked up
\* twice in a frame, every entry left by the purge that ends a frame belongs
\* to a key looked up in that frame, and in an open frame every entry belongs
\* to a key looked up in the frame before or in this one: the entries never
\* outnumber those keys.
C22_BoundedResidency ==
  (Disciplined /\ ~repeated /\ ~destroyed)
    => /\ ~frame_open => DOMAIN cache_ \subseteq Requested(reqs)
       /\ frame_open
            => /\ DOMAIN cache_ \subseteq Requested(prevReqs) \cup Requested(reqs)
               /\ Cardinality(DOMAIN cache_)
                    <= Cardinality(Requested(prevReqs))
                         + Cardinality(Requested(reqs))

\* C22 witness: the second frame has ended; it looked up two of the three
\* keys the first frame had looked up, and its purge has evicted the third.
C22_Witness ==
  /\ last.op = "endFrame"
  /\ ~repeated
  /\ frame_count_ = 2
  /\ Cardinality(Requested(prevReqs)) = 3
  /\ Cardinality(Requested(reqs)) = 2
  /\ DOMAIN cache_ = Requested(reqs)
  /\ cache_evictions_ = 1

\* C23: an entry that is in the map after a lookup left it with count c is
\* removed by the (c+1)-th PurgeCache call after that lookup and by none
\* before, also when c is above 1 (a build without DCHECKs, the key looked
\* up again before a purge): the purges the entry is still due to see are
\* its count plus one, and it is in the map exactly while some are left.
\* No count is below kDeadAccessCount.
C23_EvictedAfterCountPlusOnePurges ==
  \A k \in Keys :
    /\ Find(cache_, k) # {} <=> purges_left[k] > 0
    /\ Find(cache_, k) # {}
         => /\ purges_left[k] = At(cache_, k).access_count + 1
            /\ At(cache_, k).access_count >= kDeadAccessCount

\* C23 witness: a build without DCHECKs; the one entry ever inserted was
\* looked up twice in a frame and reached count 3 with its third hit; it
\* was not looked up after that, and the purge that ends the fifth frame,
\* the fourth since, has just removed it.
C23_Witness ==
  /\ ~dchecks_on
  /\ repeated
  /\ last.op = "endFrame"
  /\ frame_count_ = 5
  /\ reqs = NoReqs
  /\ prevReqs = NoReqs
  /\ inserted = 1
  /\ cache_hits_ = 3
  /\ cache_evictions_ = 1
  /\ DOMAIN cache_ = {}

\* C24: a lookup of key K changes the entry of K only: for every other key
\* the presence of its entry, its count and its image are as before the
\* call, and no lookup removes an entry.
C24_LookupChangesOnlyItsEntry ==
  [][PaintStep
       => /\ DOMAIN cache_ \subseteq DOMAIN cache_'
          /\ \A k \in Keys \ {Key(last'.picture, last'.size)} :
               /\ Find(cache_', k) = Find(cache_, k)
               /\ At(cache_', k) = At(cache_, k)]_vars

\* C24 witness: a lookup has rasterized and returned the image of its key
\* while the two other keys of the scene have their entries, one with
\* count 1 from this frame and one with count 0 and its image from the
\* frame before.
C24_Witness ==
  /\ last.op = "Paint"
  /\ last.rasterized
  /\ Present(last.ret)
  /\ Cardinality(DOMAIN cache_) = 3
  /\ \E k1, k2 \in DOMAIN cache_ \ {LastKey} :
       /\ cache_[k1].access_count = 1
       /\ cache_[k2].access_count = 0
       /\ cache_[k2].image # NoImage

====
